---- MODULE Spec2Model ----
(***************************************************************************)
(* The MCP tool bridge of mini_agent/tools/mcp_loader.py:                  *)
(*   MCPServerConnection.connect / disconnect, load_mcp_tools_async and    *)
(*   cleanup_mcp_connections, with the process-wide list _mcp_connections. *)
(* A coroutine is modelled from one await to the next; what an awaited     *)
(* library call answers (a value, an exception, a cancellation) is chosen  *)
(* by the environment.                                                     *)
(* The browser tool of examples/xhs_publisher is modelled beside it:       *)
(*   BrowserManager.initialize / close and XHSBrowserTool.execute.         *)
(***************************************************************************)
EXTENDS Integers, Sequences, FiniteSets, TLC

\* ------------------------------------------------------------- bounds
NumServers == 2
MaxTools == 2
NumKeys == 2
MaxFrags == 2
MaxManagers == 2

Servers == 1..NumServers

Managers == 1..MaxManagers

\* ---------------------------------------------------------- exceptions
\* An exception is its class and, for str(e), whether the message mentions
\* "cancel scope" (cs) and "different task" (dt).
Exc(cls, cs, dt) == [cls |-> cls, cs |-> cs, dt |-> dt]

CancelledError == Exc("CancelledError", FALSE, FALSE)

RuntimeErrors == {Exc("RuntimeError", a, b) : a \in BOOLEAN, b \in BOOLEAN}

OtherError == Exc("Exception", FALSE, FALSE)

NoExc == Exc("none", FALSE, FALSE)

\* What `await self.exit_stack.aclose()` can raise while it unwinds contexts.
AcloseErrors == {CancelledError, OtherError} \cup RuntimeErrors

\* asyncio.CancelledError derives from BaseException: `except Exception`
\* does not catch it.
IsException(e) == e.cls \in {"RuntimeError", "Exception"}

\* -------------------------------------------------------- configuration
\* One entry of config["mcpServers"], by the path it takes through the loop.
EntryKinds == {"ok", "disabled", "nocmd", "nonmapping", "badenv", "badargs"}

FileStates == {"absent", "unparsable", "ok"}

\* mcpServers: the entries in file order; empty when none is declared.
Configs == UNION {[1..n -> EntryKinds] : n \in 0..NumServers}

\* An entry for which the loop reaches connection.connect().
Eligible(k) == k \in {"ok", "badargs"}

Tool(i, k) == [server |-> i, name |-> k]

\* tools_list.tools wrapped in discovery order, the first n of them.
Wrapped(i, n) == [k \in 1..n |-> Tool(i, k)]

\* ------------------------------------------------------------ the state
VARIABLES
    fileState,        \* the configuration file
    config,           \* the entries of mcpServers, in order
    conn,             \* the MCPServerConnection built for each entry
    pc,               \* where load_mcp_tools_async is
    ldI,              \* the entry the loop is at
    all_tools,        \* load's local list
    ldRet,            \* how load ended
    mcp_connections,  \* _mcp_connections
    clPc,             \* where cleanup_mcp_connections is
    clI,              \* the connection its loop is at
    clSeen,           \* connections this cleanup called disconnect() on
    clRaised,         \* the last cleanup call ended with an exception
    clCaught,         \* this cleanup's except clause has run
    cleanups,         \* cleanup calls that have ended: 0, 1, 2 for more
    ev,               \* the last disconnect(): connection, aclose outcome, raised
    main,             \* where main() of the example program is, and how it ended
    iv,               \* the MCPTool.execute call in progress or last ended
    envCfg,           \* the env mapping of one configuration entry
    ambient,          \* os.environ, per key
    resolved,         \* resolved_env, once computed
    wr,               \* connect()'s wrapping loop over the listed descriptors
    mgr,              \* the BrowserManager objects
    xt,               \* _browser_manager, _publisher and the last execute()
    bev               \* the last initialize() or close() called on a manager

vars == <<fileState, config, conn, pc, ldI, all_tools, ldRet, mcp_connections,
          clPc, clI, clSeen, clRaised, clCaught, cleanups, ev,
          main, iv, envCfg, ambient, resolved, wr, mgr, xt, bev>>

envVars == <<envCfg, ambient, resolved>>

\* What the loader's own operations never touch.
yVars == <<wr, mgr, xt, bev>>

xVars == <<main, iv, envVars, yVars>>

ldVars == <<pc, ldI, all_tools, ldRet>>

clVars == <<clPc, clI, clSeen, clRaised, clCaught, cleanups>>

\* MCPServerConnection.__init__, before it is constructed for an entry.
\* steps: the protocol requests that have been answered, in order; released:
\* the resources aclose() has exited, in order; again: connect() calls made
\* on the object after the load.
NewConn ==
    [created |-> FALSE, exit_stack |-> FALSE, session |-> FALSE,
     tools |-> <<>>, entered |-> 0, proc |-> "none", chan |-> "none",
     acloses |-> 0, result |-> "none", failedAt |-> "none",
     cancelAt |-> "none", phase |-> "Disconnected",
     steps |-> <<>>, released |-> <<>>, again |-> 0, attempts |-> 0]

NoEv == [op |-> "none", c |-> 0, out |-> NoExc, called |-> FALSE, raised |-> FALSE]

\* The module as imported: no connection, an empty _mcp_connections.
LoaderInit ==
    /\ fileState \in FileStates
    /\ config \in Configs
    /\ (fileState # "ok" => config = <<>>)
    /\ conn = [i \in Servers |-> NewConn]
    /\ pc = "idle"
    /\ ldI = 0
    /\ all_tools = <<>>
    /\ ldRet = [kind |-> "none", tools |-> <<>>, exc |-> NoExc]
    /\ mcp_connections = <<>>
    /\ clPc = "idle"
    /\ clI = 0
    /\ clSeen = {}
    /\ clRaised = FALSE
    /\ clCaught = FALSE
    /\ cleanups = 0
    /\ ev = NoEv

\* No execute() call yet.
NoInvoke ==
    [pc |-> "idle", tool |-> Tool(0, 0), ready |-> FALSE, chanAt |-> "none",
     out |-> [kind |-> "none"], raised |-> FALSE, res |-> [kind |-> "none"]]

\* No env mapping under resolution.
EnvIdle ==
    /\ envCfg = <<>>
    /\ ambient = <<>>
    /\ resolved = [done |-> FALSE, env |-> <<>>]

\* No wrapping loop under way.
NoWrap == [descs |-> <<>>, session |-> 0, at |-> 0, tools |-> <<>>, result |-> "none"]

\* BrowserManager.__init__: no handle, not initialized. pc is where a call
\* on the object is; stealth tells that the init script was added, failedAt
\* the await at which the last initialize() failed.
NewManager ==
    [playwright |-> FALSE, browser |-> FALSE, context |-> FALSE, page |-> FALSE,
     initialized |-> FALSE, stealth |-> FALSE, pc |-> "idle", failedAt |-> "none"]

NoCall == [action |-> "none", success |-> FALSE, raised |-> FALSE,
           touched |-> FALSE, connected |-> FALSE]

\* xhs_browser_tool as imported: `_browser_manager = None`, `_publisher = None`.
\* A manager is named by its index, 0 for None; the publisher by the manager
\* it was built on. made counts the BrowserManager objects built so far,
\* connected tells that a connect succeeded and no close followed.
ToolIdle ==
    [browser_manager |-> 0, publisher |-> 0, pc |-> "idle", made |-> 0,
     connected |-> FALSE, last |-> NoCall]

NoBev == [op |-> "none", m |-> 0, before |-> NewManager, after |-> NewManager,
          out |-> NoExc, raised |-> NoExc, done |-> FALSE]

\* The browser tool is not in use.
BrowserIdle ==
    /\ mgr = [m \in Managers |-> NewManager]
    /\ xt = ToolIdle
    /\ bev = NoBev

\* Neither the wrapping loop nor the browser tool is in use.
OthersIdle ==
    /\ wr = NoWrap
    /\ BrowserIdle

\* The loader driven by any caller: main() is not modelled.
Init ==
    /\ LoaderInit
    /\ main = [pc |-> "free", by |-> "none"]
    /\ iv = NoInvoke
    /\ EnvIdle
    /\ OthersIdle

\* ------------------------------------------------- AsyncExitStack.aclose
\* aclose() unwinds every entered context, last entered first, and raises
\* what the unwinding raised. An empty stack has nothing that can raise.
AcloseOutcomes(c) == IF c.entered = 0 THEN {NoExc} ELSE {NoExc} \cup AcloseErrors

\* When the unwinding raised, the caller does not know whether the child
\* process was terminated ("will be terminated when the parent exits"):
\* the release was attempted and its effect is "unknown".
Released(out) == IF out = NoExc THEN "closed" ELSE "unknown"

\* The contexts connect() enters, in the order it enters them.
Acquired == <<"proc", "chan">>

\* The exit stack of c: the contexts entered so far.
Stack(c) == SubSeq(Acquired, 1, c.entered)

\* Faulty variant: the contexts are exited in the order they were entered.
Unwind_Fifo(st) == st

\* AsyncExitStack exits its contexts last entered first.
Unwind(st) == [j \in 1..Len(st) |-> st[Len(st) + 1 - j]]

Aclose(c, out) ==
    [c EXCEPT !.acloses = @ + 1,
              !.released = @ \o Unwind(Stack(c)),
              !.entered = 0,
              !.chan = IF c.entered = 2 THEN Released(out) ELSE @,
              !.proc = IF c.entered >= 1 THEN Released(out) ELSE @]

\* ------------------------------------------------ load_mcp_tools_async
\* `except Exception` of connect() (line 153) and of load (line 272).
ConnectCatches(e) == IsException(e)

\* Faulty variant: load has no handler around its body.
LoadCatches_Nothing(e) == FALSE

LoadCatches(e) == IsException(e)

Returned(tools) == [kind |-> "returned", tools |-> tools, exc |-> NoExc]

Raised(e) == [kind |-> "raised", tools |-> <<>>, exc |-> e]

\* An exception e reaches the body of load's try block.
LoadUnwinds(e) ==
    /\ pc' = "done"
    /\ ldRet' = IF LoadCatches(e) THEN Returned(<<>>) ELSE Raised(e)
    /\ UNCHANGED <<ldI, all_tools>>

\* Faulty variant: the connection is appended whatever connect() returned.
Registered_Always(success, l, i) == Append(l, i)

\* `if success: _mcp_connections.append(connection)`
Registered(success, l, i) == IF success THEN Append(l, i) ELSE l

\* Faulty variant: the tools are taken whatever connect() returned.
Extended_Always(success, all, tools) == all \o tools

\* Faulty variant: the tools are put in front of the list.
Extended_Front(success, all, tools) == IF success THEN tools \o all ELSE all

\* `if success: ... all_tools.extend(connection.tools)`
Extended(success, all, tools) == IF success THEN all \o tools ELSE all

\* Faulty variant: an entry whose connect() failed is tried again.
NextEntry_RetryFailed(success, i) == IF success THEN i + 1 ELSE i

\* `for server_name, server_config in mcp_servers.items():` goes to the next
\* entry whatever connect() returned.
NextEntry(success, i) == i + 1

\* connect() of entry ldI has returned `success`, its connection now being c.
ConnectReturned(success, c) ==
    /\ mcp_connections' = Registered(success, mcp_connections, ldI)
    /\ all_tools' = Extended(success, all_tools, c.tools)
    /\ pc' = "entry"
    /\ ldI' = NextEntry(success, ldI)
    /\ UNCHANGED ldRet

\* Faulty variant: list_tools is requested on a session not yet initialized.
StepAfter_NoHandshake(step) ==
    CASE step = "spawn" -> "session"
      [] step = "session" -> "list_tools"
      [] step = "initialize" -> "list_tools"

\* The awaits of connect()'s try block, in program order.
StepAfter(step) ==
    CASE step = "spawn" -> "session"
      [] step = "session" -> "initialize"
      [] step = "initialize" -> "list_tools"

\* `continue`: the loop goes on without a connect().
LoopNext ==
    /\ pc' = "entry"
    /\ ldI' = ldI + 1
    /\ UNCHANGED <<all_tools, ldRet>>

\* `if not config_file.exists(): return []`; json.load raising inside the
\* try; `if not mcp_servers: return []`.
LoadStart ==
    /\ pc = "idle"
    /\ clPc = "idle"
    /\ CASE fileState = "absent" ->
              /\ pc' = "done"
              /\ ldRet' = Returned(<<>>)
              /\ UNCHANGED <<ldI, all_tools>>
         [] fileState = "unparsable" ->
              LoadUnwinds(OtherError)
         [] fileState = "ok" /\ config = <<>> ->
              /\ pc' = "done"
              /\ ldRet' = Returned(<<>>)
              /\ UNCHANGED <<ldI, all_tools>>
         [] OTHER ->
              /\ pc' = "entry"
              /\ ldI' = 1
              /\ all_tools' = <<>>
              /\ UNCHANGED ldRet
    /\ UNCHANGED <<xVars, fileState, config, conn, mcp_connections, clVars, ev>>

\* Faulty variant: the disabled flag is not read.
IsDisabled_Never(k) == FALSE

\* `server_config.get("disabled", False)`
IsDisabled(k) == k = "disabled"

\* Faulty variant: the command is not tested.
HasCommand_Always(k) == TRUE

\* `command = server_config.get("command")`, tested by `if not command`
HasCommand(k) == k # "nocmd"

\* StdioServerParameters(command=..., args=..., env=...) rejects a command
\* that is no string and args that are no list of strings.
ParamsRejected(k) == k \in {"badargs", "nocmd"}

\* One turn of the for loop up to the first await of connect(); attempts
\* counts the connect() calls load makes for the entry.
LoadEntry ==
    /\ pc = "entry"
    /\ IF ldI > Len(config)
       THEN /\ pc' = "done"
            /\ ldRet' = Returned(all_tools)
            /\ UNCHANGED <<ldI, all_tools, conn, mcp_connections>>
       ELSE LET k == config[ldI] IN
            IF k = "nonmapping"
            THEN /\ LoadUnwinds(OtherError)
                 /\ UNCHANGED <<conn, mcp_connections>>
            ELSE IF IsDisabled(k) \/ ~HasCommand(k)
            THEN /\ LoopNext
                 /\ UNCHANGED <<conn, mcp_connections>>
            ELSE IF k = "badenv"
            THEN /\ LoadUnwinds(OtherError)
                 /\ UNCHANGED <<conn, mcp_connections>>
            ELSE IF ParamsRejected(k)
            THEN LET c == [conn[ldI] EXCEPT !.created = TRUE, !.failedAt = "params",
                                           !.attempts = @ + 1,
                                           !.result = "False", !.phase = "Failed"] IN
                 /\ conn' = [conn EXCEPT ![ldI] = c]
                 /\ ConnectReturned(FALSE, c)
            ELSE /\ conn' = [conn EXCEPT ![ldI] =
                        [@ EXCEPT !.created = TRUE, !.exit_stack = TRUE,
                                  !.attempts = @ + 1,
                                  !.phase = "Connecting"]]
                 /\ pc' = "spawn"
                 /\ UNCHANGED <<ldI, all_tools, ldRet, mcp_connections>>
    /\ UNCHANGED <<xVars, fileState, config, clVars, ev>>

\* An Exception raised inside connect()'s try at `step`: the handler runs.
Fails(step) ==
    /\ conn' = [conn EXCEPT ![ldI] = [@ EXCEPT !.failedAt = step]]
    /\ pc' = "aclose"
    /\ UNCHANGED <<ldI, all_tools, ldRet>>

\* await exit_stack.enter_async_context(stdio_client(server_params))
Spawn ==
    /\ pc = "spawn"
    /\ \/ /\ conn' = [conn EXCEPT ![ldI] = [@ EXCEPT !.proc = "open", !.entered = 1]]
          /\ pc' = StepAfter(pc)
          /\ UNCHANGED <<ldI, all_tools, ldRet>>
       \/ Fails("spawn")
    /\ UNCHANGED <<xVars, fileState, config, mcp_connections, clVars, ev>>

\* await exit_stack.enter_async_context(ClientSession(...)); self.session = session
OpenSession ==
    /\ pc = "session"
    /\ \/ /\ conn' = [conn EXCEPT ![ldI] =
                 [@ EXCEPT !.chan = "open", !.entered = 2, !.session = TRUE]]
          /\ pc' = StepAfter(pc)
          /\ UNCHANGED <<ldI, all_tools, ldRet>>
       \/ Fails("session")
    /\ UNCHANGED <<xVars, fileState, config, mcp_connections, clVars, ev>>

\* await session.initialize()
Initialize ==
    /\ pc = "initialize"
    /\ \/ /\ conn' = [conn EXCEPT ![ldI] =
                 [@ EXCEPT !.steps = Append(@, "initialize")]]
          /\ pc' = StepAfter(pc)
          /\ UNCHANGED <<ldI, all_tools, ldRet>>
       \/ Fails("initialize")
    /\ UNCHANGED <<xVars, fileState, config, mcp_connections, clVars, ev>>

\* await session.list_tools(), the wrapping loop, return True, and in load
\* the append to _mcp_connections and the extend of all_tools.
ListTools ==
    /\ pc = "list_tools"
    /\ \/ \E n \in 0..MaxTools :
             LET c == [conn[ldI] EXCEPT !.tools = Wrapped(ldI, n),
                                       !.steps = Append(@, "list_tools"),
                                       !.result = "True", !.phase = "Ready"] IN
             /\ conn' = [conn EXCEPT ![ldI] = c]
             /\ ConnectReturned(TRUE, c)
       \/ /\ Fails("list_tools")
          /\ UNCHANGED mcp_connections
       \/ \E n \in 1..MaxTools, bad \in 1..MaxTools :
             /\ bad <= n
             /\ conn' = [conn EXCEPT ![ldI] =
                    [@ EXCEPT !.tools = Wrapped(ldI, bad - 1),
                              !.steps = Append(@, "list_tools"),
                              !.failedAt = "wrap"]]
             /\ pc' = "aclose"
             /\ UNCHANGED <<ldI, all_tools, ldRet, mcp_connections>>
    /\ UNCHANGED <<xVars, fileState, config, clVars, ev>>

\* Faulty variant: the handler keeps the exit stack it has closed.
HandlerClears_Keeps(c) == c

\* `self.exit_stack = None` of connect()'s handler, reached when aclose()
\* has returned.
HandlerClears(c) == [c EXCEPT !.exit_stack = FALSE]

\* The handler of connect(): `if self.exit_stack: await aclose(); = None`,
\* then return False. What aclose raises leaves connect() from the handler.
ConnectAclose ==
    /\ pc = "aclose"
    /\ \E out \in AcloseOutcomes(conn[ldI]) :
          LET c == Aclose(conn[ldI], out) IN
          IF out = NoExc
          THEN LET d == [HandlerClears(c) EXCEPT !.result = "False",
                                                !.phase = "Failed"] IN
               /\ conn' = [conn EXCEPT ![ldI] = d]
               /\ ConnectReturned(FALSE, d)
          ELSE /\ conn' = [conn EXCEPT ![ldI] =
                      [c EXCEPT !.result = "raised", !.phase = "Failed",
                                !.cancelAt = IF out = CancelledError
                                             THEN "aclose" ELSE @]]
               /\ LoadUnwinds(out)
               /\ UNCHANGED mcp_connections
    /\ UNCHANGED <<xVars, fileState, config, clVars, ev>>

\* The task is cancelled while connect() is suspended in its try block:
\* CancelledError is raised at the await, passes `except Exception` of
\* connect() and of load.
AwaitPoints == {"spawn", "session", "initialize", "list_tools"}

ConnectCancelled ==
    /\ pc \in AwaitPoints
    /\ IF ConnectCatches(CancelledError)
       THEN Fails(pc)
       ELSE /\ conn' = [conn EXCEPT ![ldI] =
                   [@ EXCEPT !.cancelAt = pc, !.result = "raised", !.phase = "Failed"]]
            /\ LoadUnwinds(CancelledError)
    /\ UNCHANGED <<xVars, fileState, config, mcp_connections, clVars, ev>>

\* ------------------------------------------ MCPServerConnection.disconnect
\* `if self.exit_stack:`
DisconnectGuard(c) == c.exit_stack

\* Faulty variant: `or` for `and` in the message test.
DisconnectReraises_Or(e) == e.cls = "RuntimeError" /\ (~e.cs \/ ~e.dt)

\* `except RuntimeError as e: if "cancel scope" not in str(e) and
\*  "different task" not in str(e): raise`; CancelledError and any other
\* Exception are passed over.
DisconnectReraises(e) == e.cls = "RuntimeError" /\ ~e.cs /\ ~e.dt

\* Faulty variant: the finally clause keeps the exit stack.
DisconnectFinally_KeepStack(c) == [c EXCEPT !.session = FALSE]

\* `finally: self.exit_stack = None; self.session = None`
DisconnectFinally(c) == [c EXCEPT !.exit_stack = FALSE, !.session = FALSE]

\* Faulty variant: the references are cleared after the try statement, not
\* in a finally clause, so an error that escapes leaves them set.
Disconnected_ClearOnReturn(c, out) ==
    IF DisconnectGuard(c)
    THEN IF out # NoExc /\ DisconnectReraises(out)
         THEN [Aclose(c, out) EXCEPT !.phase = "Closed"]
         ELSE [DisconnectFinally(Aclose(c, out)) EXCEPT !.phase = "Closed"]
    ELSE [c EXCEPT !.phase = "Closed"]

\* The connection after disconnect() whose aclose() answered out.
Disconnected(c, out) ==
    IF DisconnectGuard(c)
    THEN [DisconnectFinally(Aclose(c, out)) EXCEPT !.phase = "Closed"]
    ELSE [c EXCEPT !.phase = "Closed"]

\* What disconnect() raises to its caller.
DisconnectRaises(c, out) ==
    IF DisconnectGuard(c) /\ out # NoExc /\ DisconnectReraises(out) THEN out ELSE NoExc

DiscEv(i, c, out) ==
    [op |-> "disconnect", c |-> i,
     out |-> IF DisconnectGuard(c) THEN out ELSE NoExc,
     called |-> DisconnectGuard(c),
     raised |-> DisconnectRaises(c, out) # NoExc]

\* disconnect() called on a connection by a holder of the object, outside
\* the bulk operations.
Disconnect(i) ==
    /\ pc = "done"
    /\ clPc = "idle"
    /\ conn[i].created
    /\ \E out \in AcloseOutcomes(conn[i]) :
          /\ conn' = [conn EXCEPT ![i] = Disconnected(@, out)]
          /\ ev' = DiscEv(i, conn[i], out)
    /\ UNCHANGED <<xVars, fileState, config, ldVars, mcp_connections, clVars>>

\* --------------------------------------------- cleanup_mcp_connections
\* Faulty variant: the guard passes over cancellations only.
CleanupCatches_CancelOnly(e) == e.cls = "CancelledError"

\* `except (asyncio.CancelledError, Exception): pass`
CleanupCatches(e) == e.cls = "CancelledError" \/ IsException(e)

\* Faulty variant: the list is not cleared.
Cleared_Kept(l) == l

\* `_mcp_connections.clear()`
Cleared(l) == <<>>

\* Faulty variant: one guard around the whole loop, so a caught exception ends it.
AfterCaught_LeavesLoop(k, len) == len + 1

\* The loop index after the except clause has passed over an exception.
AfterCaught(k, len) == k + 1

Ended(n) == IF n < 2 THEN n + 1 ELSE 2

CleanupStart ==
    /\ pc = "done"
    /\ clPc = "idle"
    /\ clPc' = "loop"
    /\ clI' = 1
    /\ clSeen' = {}
    /\ clRaised' = FALSE
    /\ clCaught' = FALSE
    /\ ev' = NoEv
    /\ UNCHANGED <<xVars, fileState, config, conn, ldVars, mcp_connections, cleanups>>

\* One turn of the for loop: `await connection.disconnect()` under the guard.
CleanupStep ==
    /\ clPc = "loop"
    /\ clI <= Len(mcp_connections)
    /\ LET i == mcp_connections[clI] IN
       \E out \in AcloseOutcomes(conn[i]) :
          LET e == DisconnectRaises(conn[i], out) IN
          /\ conn' = [conn EXCEPT ![i] = Disconnected(@, out)]
          /\ ev' = DiscEv(i, conn[i], out)
          /\ clSeen' = clSeen \cup {i}
          /\ CASE e = NoExc ->
                    /\ clI' = clI + 1
                    /\ UNCHANGED <<clPc, clRaised, clCaught, cleanups>>
               [] e # NoExc /\ CleanupCatches(e) ->
                    /\ clI' = AfterCaught(clI, Len(mcp_connections))
                    /\ clCaught' = TRUE
                    /\ UNCHANGED <<clPc, clRaised, cleanups>>
               [] OTHER ->
                    /\ clPc' = "idle"
                    /\ clRaised' = TRUE
                    /\ cleanups' = Ended(cleanups)
                    /\ clI' = 0
                    /\ UNCHANGED clCaught
    /\ UNCHANGED <<xVars, fileState, config, ldVars, mcp_connections>>

CleanupFinish ==
    /\ clPc = "loop"
    /\ clI > Len(mcp_connections)
    /\ mcp_connections' = Cleared(mcp_connections)
    /\ clPc' = "idle"
    /\ cleanups' = Ended(cleanups)
    /\ clI' = 0
    /\ clSeen' = {}
    /\ clCaught' = FALSE
    /\ ev' = NoEv
    /\ UNCHANGED <<xVars, fileState, config, conn, ldVars, clRaised>>

\* ------------------------------------------------------ specification
Next ==
    \/ LoadStart
    \/ LoadEntry
    \/ Spawn
    \/ OpenSession
    \/ Initialize
    \/ ListTools
    \/ ConnectAclose
    \/ ConnectCancelled
    \/ \E i \in Servers : Disconnect(i)
    \/ CleanupStart
    \/ CleanupStep
    \/ CleanupFinish

Spec == Init /\ [][Next]_vars


\* ------------------------------------------------- env resolution (247-259)
\* A string is the sequence of its pieces; <<>> is the empty string.
Keys == 1..NumKeys

EnvValues ==
    {<<>>, <<"YOUR_", "KEY">>, <<"your-", "key">>, <<"Your_", "key">>,
     <<"x", "YOUR_">>, <<"sk">>}

AmbientValues == {<<>>, <<"amb">>}

\* os.getenv(key): None, or the string the environment holds.
Unset == [defined |-> FALSE, val |-> <<>>]
Getenv(amb, k) == amb[k]

\* str.startswith
StartsWith(v, p) == Len(v) > 0 /\ v[1] = p

\* Faulty variant: the marker is looked for anywhere in the value.
IsPlaceholder_Contains(v) ==
    \/ v = <<>>
    \/ \E j \in 1..Len(v) : v[j] \in {"YOUR_", "your-"}

\* not value or value.startswith("YOUR_") or value.startswith("your-")
IsPlaceholder(v) ==
    \/ v = <<>>
    \/ StartsWith(v, "YOUR_")
    \/ StartsWith(v, "your-")

\* Faulty variant: `if env_value is not None`.
Truthy_Defined(x) == x.defined

\* `if env_value:` is false for None and for the empty string.
Truthy(x) == x.defined /\ x.val # <<>>

ResolveValue(v, a) ==
    IF IsPlaceholder(v)
    THEN IF Truthy(a) THEN a.val ELSE v
    ELSE v

\* Faulty variant: a placeholder the environment does not resolve is left out.
ResolveEnv_DropsUnresolved(cfg, amb) ==
    [k \in {j \in DOMAIN cfg : ~IsPlaceholder(cfg[j]) \/ Truthy(Getenv(amb, j))} |->
        ResolveValue(cfg[k], Getenv(amb, k))]

\* `for key, value in env.items():` assigns resolved_env[key] on each branch.
ResolveEnv(cfg, amb) ==
    [k \in DOMAIN cfg |-> ResolveValue(cfg[k], Getenv(amb, k))]

\* One entry's env mapping (any subset of the keys) in one environment.
InitEnv ==
    /\ LoaderInit
    /\ fileState = "ok"
    /\ config = <<"ok">>
    /\ main = [pc |-> "free", by |-> "none"]
    /\ iv = NoInvoke
    /\ envCfg \in UNION {[K -> EnvValues] : K \in SUBSET Keys}
    /\ ambient \in [Keys -> {Unset} \cup
                            {[defined |-> TRUE, val |-> a] : a \in AmbientValues}]
    /\ resolved = [done |-> FALSE, env |-> <<>>]
    /\ OthersIdle

\* The for-loop over env.items(), as one step.
EnvResolve ==
    /\ ~resolved.done
    /\ resolved' = [done |-> TRUE, env |-> ResolveEnv(envCfg, ambient)]
    /\ UNCHANGED <<envCfg, ambient, main, iv, yVars, fileState, config, conn, ldVars,
                   mcp_connections, clVars, ev>>

NextEnv == EnvResolve

SpecEnv == InitEnv /\ [][NextEnv]_vars

\* ------------------------------------------------------ MCPTool.execute
\* An optional string: None, or the string s.
None == [some |-> FALSE, s |-> <<>>]
Some(s) == [some |-> TRUE, s |-> s]

\* result.content items: a text item, or an item without a text attribute.
Fragments ==
    {[kind |-> "text", text |-> <<"a">>],
     [kind |-> "text", text |-> <<>>],
     [kind |-> "image", text |-> <<>>]}

\* str(item)
Str(item) == <<"<", item.kind, ">">>

\* What call_tool returns: the items and, when the attribute exists, isError.
Responses ==
    {[kind |-> "response", content |-> c,
      hasIsError |-> (f # "absent"), isError |-> (f = "true")] :
        c \in UNION {[1..n -> Fragments] : n \in 0..MaxFrags},
        f \in {"absent", "true", "false"}}

\* What call_tool raises: an Exception with its str(e), or the cancellation
\* of the awaiting task.
TransportErrors ==
    {[kind |-> "exc", exc |-> [cls |-> "Exception", msg |-> m]] :
        m \in {<<"closed">>, <<"timed", "out">>}}

Cancellation ==
    [kind |-> "exc", exc |-> [cls |-> "CancelledError", msg |-> <<>>]]

\* call_tool on a session whose channel was released: a transport error.
ClosedChannelOutcomes == TransportErrors \cup {Cancellation}

\* await self._session.call_tool(self._name, arguments=kwargs)
CallOutcomes(ch) ==
    IF ch = "closed"
    THEN ClosedChannelOutcomes
    ELSE Responses \cup TransportErrors \cup {Cancellation}

\* item.text if the item has one, else str(item)
Part(item) == IF item.kind = "text" THEN item.text ELSE Str(item)

\* Faulty variant: the parts are concatenated with nothing between them.
RECURSIVE Join_NoSeparator(_)
Join_NoSeparator(parts) ==
    IF Len(parts) = 0 THEN <<>>
    ELSE Part(parts[1]) \o Join_NoSeparator(Tail(parts))

\* '\n'.join(content_parts)
RECURSIVE Join(_)
Join(parts) ==
    IF Len(parts) = 0 THEN <<>>
    ELSE IF Len(parts) = 1 THEN Part(parts[1])
    ELSE Part(parts[1]) \o <<"\n">> \o Join(Tail(parts))

\* Faulty variant: the presence of the attribute is taken for the flag.
IsError_HasAttr(r) == r.hasIsError

\* result.isError if hasattr(result, 'isError') else False
IsError(r) == IF r.hasIsError THEN r.isError ELSE FALSE

ToolResult(success, content, error) ==
    [success |-> success, content |-> content, error |-> error]

ExecuteResult(r) ==
    ToolResult(~IsError(r), Join(r.content),
               IF ~IsError(r) THEN None ELSE Some(<<"Tool returned error">>))

\* Faulty variant: the handler answers with a default ToolResult.
ExecuteFailure_Default(e) == ToolResult(TRUE, <<>>, None)

\* The except clause's ToolResult.
ExecuteFailure(e) ==
    ToolResult(FALSE, <<>>, Some(<<"MCP tool execution failed: ">> \o e.msg))

\* Faulty variant: no except clause.
ExecuteCatches_Nothing(e) == FALSE

\* except Exception as e
ExecuteCatches(e) == IsException(e)

\* execute() as a whole, given what call_tool produced.
Execute(o) ==
    IF o.kind = "response"
    THEN [raised |-> FALSE, res |-> ExecuteResult(o)]
    ELSE IF ExecuteCatches(o.exc)
         THEN [raised |-> FALSE, res |-> ExecuteFailure(o.exc)]
         ELSE [raised |-> TRUE, res |-> [kind |-> "none"]]

\* The agent calls execute() on a tool that load returned; execute suspends
\* in call_tool.
InvokeStart ==
    /\ iv.pc \in {"idle", "done"}
    /\ pc = "done"
    /\ ldRet.kind = "returned"
    /\ \E j \in 1..Len(ldRet.tools) :
          iv' = [NoInvoke EXCEPT
                    !.pc = "pending",
                    !.tool = ldRet.tools[j],
                    !.ready = (conn[ldRet.tools[j].server].phase = "Ready")]
    /\ UNCHANGED <<main, envVars, yVars, fileState, config, conn, ldVars,
                   mcp_connections, clVars, ev>>

\* call_tool ends and execute() runs to its return or raise.
InvokeResolve ==
    /\ iv.pc = "pending"
    /\ \E o \in CallOutcomes(conn[iv.tool.server].chan) :
          iv' = [iv EXCEPT
                    !.pc = "done",
                    !.chanAt = conn[iv.tool.server].chan,
                    !.out = o,
                    !.raised = Execute(o).raised,
                    !.res = Execute(o).res]
    /\ UNCHANGED <<main, envVars, yVars, fileState, config, conn, ldVars,
                   mcp_connections, clVars, ev>>

\* One server entry, loaded, its tools invoked while teardown may run.
InitInvoke ==
    /\ Init
    /\ fileState = "ok"
    /\ config = <<"ok">>

NextInvoke ==
    \/ Next
    \/ InvokeStart
    \/ InvokeResolve

SpecInvoke == InitInvoke /\ [][NextInvoke]_vars

\* ------------------------------------------ examples/xhs_publisher main()
\* main() from the load of the MCP tools on (Config.ENABLE_MCP is set).
InitMain ==
    /\ LoaderInit
    /\ main = [pc |-> "load", by |-> "none"]
    /\ iv = NoInvoke
    /\ EnvIdle
    /\ OthersIdle

MainGoes(p, by) == main' = [pc |-> p, by |-> by]

\* What main's own steps leave alone.
MainKeeps ==
    UNCHANGED <<iv, envVars, yVars, fileState, config, conn, ldVars,
                mcp_connections, clVars, ev>>

\* await load_mcp_tools_async()
MainLoad ==
    /\ main.pc = "load"
    /\ \/ LoadStart
       \/ LoadEntry
       \/ Spawn
       \/ OpenSession
       \/ Initialize
       \/ ListTools
       \/ ConnectAclose
       \/ ConnectCancelled

\* `except Exception` around the load.
MainCatchesLoad(e) == IsException(e)

\* The load has ended: main goes on unless what it raised passes the handler.
MainLoaded ==
    /\ main.pc = "load"
    /\ pc = "done"
    /\ IF ldRet.kind = "raised" /\ ~MainCatchesLoad(ldRet.exc)
       THEN MainGoes("ended", "cancelled")
       ELSE MainGoes("setup", "none")
    /\ MainKeeps

\* The image tool, Agent(...) and create_command_session(...): outside any
\* handler, so an exception here ends main.
MainSetup ==
    /\ main.pc = "setup"
    /\ \/ MainGoes("input", "none")
       \/ MainGoes("ended", "error")
    /\ MainKeeps

\* How one pass of the loop leaves `await async_input(...)` and the command
\* handling: a request for the agent, the exit command, Ctrl-C, end of input,
\* or any other exception. (Empty input and the other commands `continue`.)
InputOutcomes == {"text", "exit", "interrupt", "eof", "error"}

\* The exit branch and the KeyboardInterrupt and EOFError handlers call
\* cleanup_mcp_connections(); nothing else does.
InputCleansUp(o) == o \in {"exit", "interrupt", "eof"}

MainInput ==
    /\ main.pc = "input"
    /\ \E o \in InputOutcomes :
          IF o = "text" THEN MainGoes("run", "none")
          ELSE IF InputCleansUp(o) THEN MainGoes("cleanup", o)
          ELSE MainGoes("ended", o)
    /\ MainKeeps

\* await agent.run(): its Exceptions are caught and the loop goes on; a
\* KeyboardInterrupt reaches the outer handler; the cancellation of the main
\* task passes every handler.
MainRun ==
    /\ main.pc = "run"
    /\ \/ MainGoes("input", "none")
       \/ MainGoes("cleanup", "interrupt")
       \/ MainGoes("ended", "cancelled")
    /\ MainKeeps

\* await cleanup_mcp_connections(), then break.
MainCleanup ==
    /\ main.pc = "cleanup"
    /\ \/ cleanups = 0 /\ CleanupStart
       \/ CleanupStep
       \/ CleanupFinish

MainBreak ==
    /\ main.pc = "cleanup"
    /\ cleanups > 0
    /\ clPc = "idle"
    /\ MainGoes("ended", main.by)
    /\ MainKeeps

NextMain ==
    \/ MainLoad
    \/ MainLoaded
    \/ MainSetup
    \/ MainInput
    \/ MainRun
    \/ MainCleanup
    \/ MainBreak

SpecMain == InitMain /\ [][NextMain]_vars

\* ------------------------------- connect() called again on a held object
\* A holder of a connection object (taken from _mcp_connections) calls its
\* connect() once more after disconnect(): nothing in connect() looks at
\* what the object has been through.
MaxAgain == 1

\* How many contexts are entered when connect() fails at `step`.
EnteredAt(step) ==
    CASE step = "spawn" -> 0
      [] step = "session" -> 1
      [] OTHER -> 2

\* The resources of c with the first n contexts entered anew.
Entered(c, n) ==
    [c EXCEPT !.entered = n,
              !.proc = IF n >= 1 THEN "open" ELSE @,
              !.chan = IF n >= 2 THEN "open" ELSE @,
              !.session = IF n >= 2 THEN TRUE ELSE @]

\* No connect() of the holder is under way.
HolderIdle == \A j \in Servers : conn[j].phase # "Connecting"

\* connect() up to its first await: StdioServerParameters(...) and
\* `self.exit_stack = AsyncExitStack()`.
ConnectAgainBegin(i) ==
    /\ pc = "done"
    /\ clPc = "idle"
    /\ HolderIdle
    /\ conn[i].result = "True"
    /\ conn[i].phase = "Closed"
    /\ conn[i].again < MaxAgain
    /\ conn' = [conn EXCEPT ![i] =
           [@ EXCEPT !.again = @ + 1, !.exit_stack = TRUE, !.steps = <<>>,
                     !.failedAt = "none", !.phase = "Connecting"]]
    /\ UNCHANGED <<xVars, fileState, config, ldVars, mcp_connections, clVars, ev>>

\* The rest of that connect(): it returns True with n more tools appended to
\* self.tools, or fails at a step and runs its handler, or is cancelled.
ConnectAgainEnd(i) ==
    /\ pc = "done"
    /\ conn[i].again > 0
    /\ conn[i].phase = "Connecting"
    /\ \/ \E n \in 0..MaxTools :
             conn' = [conn EXCEPT ![i] =
                 [Entered(@, 2) EXCEPT
                     !.tools = @ \o Wrapped(i, n),
                     !.steps = <<"initialize", "list_tools">>,
                     !.result = "True", !.phase = "Ready"]]
       \/ \E st \in AwaitPoints :
             LET c == [Entered(conn[i], EnteredAt(st)) EXCEPT !.failedAt = st] IN
             \E out \in AcloseOutcomes(c) :
                conn' = [conn EXCEPT ![i] =
                    IF out = NoExc
                    THEN [HandlerClears(Aclose(c, out)) EXCEPT
                                               !.result = "False",
                                               !.phase = "Failed"]
                    ELSE [Aclose(c, out) EXCEPT !.result = "raised",
                                               !.phase = "Failed"]]
       \/ \E st \in AwaitPoints :
             /\ ~ConnectCatches(CancelledError)
             /\ conn' = [conn EXCEPT ![i] =
                    [Entered(@, EnteredAt(st)) EXCEPT
                        !.cancelAt = st, !.result = "raised", !.phase = "Failed"]]
    /\ UNCHANGED <<xVars, fileState, config, ldVars, mcp_connections, clVars, ev>>

\* The holder makes one call at a time.
HeldDisconnect(i) == HolderIdle /\ Disconnect(i)

HeldCleanupStart == HolderIdle /\ CleanupStart

\* One server entry, loaded, then used through the object.
InitConn ==
    /\ Init
    /\ fileState = "ok"
    /\ config = <<"ok">>

NextConn ==
    \/ LoadStart
    \/ LoadEntry
    \/ Spawn
    \/ OpenSession
    \/ Initialize
    \/ ListTools
    \/ ConnectAclose
    \/ ConnectCancelled
    \/ \E i \in Servers : HeldDisconnect(i)
    \/ HeldCleanupStart
    \/ CleanupStep
    \/ CleanupFinish
    \/ \E i \in Servers : ConnectAgainBegin(i)
    \/ \E i \in Servers : ConnectAgainEnd(i)

SpecConn == InitConn /\ [][NextConn]_vars

\* ------------------------------------------ connect(): the wrapping loop
\* One descriptor of tools_list.tools: its name, its description (None or
\* a string, the empty one included) and its inputSchema attribute (absent,
\* or a schema, the empty one included).
Descriptions == {None, Some(<<>>), Some(<<"d">>)}

Schemas == {None, Some(<<>>), Some(<<"object">>)}

Descriptors ==
    [name : {"a", "b"}, description : Descriptions, inputSchema : Schemas]

\* Faulty variant: the description of the descriptor is not taken over.
WrapTool_NoDescription(d, session) ==
    [name |-> d.name, description |-> <<>>,
     parameters |-> IF d.inputSchema.some THEN d.inputSchema.s ELSE <<>>,
     session |-> session]

\* `parameters = tool.inputSchema if hasattr(tool, 'inputSchema') else {}`;
\* `MCPTool(name=tool.name, description=tool.description or "",
\*          parameters=parameters, session=session)`
WrapTool(d, session) ==
    [name |-> d.name,
     description |-> IF d.description.some /\ d.description.s # <<>>
                     THEN d.description.s ELSE <<>>,
     parameters |-> IF d.inputSchema.some THEN d.inputSchema.s ELSE <<>>,
     session |-> session]

\* connect() of a new connection after `await session.list_tools()`:
\* self.tools is the empty list of __init__, session the one just opened.
InitWrap ==
    /\ LoaderInit
    /\ fileState = "ok"
    /\ config = <<"ok">>
    /\ main = [pc |-> "free", by |-> "none"]
    /\ iv = NoInvoke
    /\ EnvIdle
    /\ BrowserIdle
    /\ \E n \in 0..MaxTools, ds \in [1..MaxTools -> Descriptors], s \in Servers :
          wr = [descs |-> SubSeq(ds, 1, n), session |-> s, at |-> 0,
                tools |-> <<>>, result |-> "none"]

\* One turn of `for tool in tools_list.tools:`, self.tools.append(mcp_tool).
WrapNext ==
    /\ wr.result = "none"
    /\ wr.at < Len(wr.descs)
    /\ wr' = [wr EXCEPT !.at = @ + 1,
                        !.tools = Append(@, WrapTool(wr.descs[wr.at + 1], wr.session))]
    /\ UNCHANGED <<fileState, config, conn, ldVars, mcp_connections, clVars, ev,
                   main, iv, envVars, mgr, xt, bev>>

\* The loop has ended: `return True`.
WrapReturn ==
    /\ wr.result = "none"
    /\ wr.at = Len(wr.descs)
    /\ wr' = [wr EXCEPT !.result = "True"]
    /\ UNCHANGED <<fileState, config, conn, ldVars, mcp_connections, clVars, ev,
                   main, iv, envVars, mgr, xt, bev>>

NextWrap == WrapNext \/ WrapReturn

SpecWrap == InitWrap /\ [][NextWrap]_vars

\* ------------------------------------------------------- BrowserManager
\* A cancellation reached a call on a manager or execute(): CancelledError
\* passes every `except Exception` of the example and ends the calling task,
\* so nothing is called afterwards.
BrowserCancelled ==
    \/ xt.pc = "cancelled"
    \/ \E m \in Managers : mgr[m].pc = "cancelled"

\* close() awaits context.close(), browser.close() and playwright.stop(),
\* each only `if` its handle is set; the first that raises ends the try.
CloseOutcomes(m) ==
    IF m.context \/ m.browser \/ m.playwright
    THEN {NoExc, OtherError, CancelledError}
    ELSE {NoExc}

\* `except Exception: pass`
CloseCatches(e) == IsException(e)

\* What close() raises to its caller.
CloseRaises(out) == IF out = NoExc \/ CloseCatches(out) THEN NoExc ELSE out

\* Faulty variant: the handles are cleared after the try block, not in a
\* finally clause, so a failing close keeps them.
Closed_ResetOnSuccess(m, out) ==
    IF out = NoExc
    THEN [m EXCEPT !.playwright = FALSE, !.browser = FALSE, !.context = FALSE,
                   !.page = FALSE, !.initialized = FALSE, !.stealth = FALSE]
    ELSE m

\* `finally:` playwright, browser, context and page are None and
\* _initialized is False, however the try block ended.
Closed(m, out) ==
    [m EXCEPT !.playwright = FALSE, !.browser = FALSE, !.context = FALSE,
              !.page = FALSE, !.initialized = FALSE, !.stealth = FALSE]

\* The awaits of initialize()'s try block, in program order.
StartSteps == {"start", "launch", "new_context", "new_page", "stealth"}

StepAfterStart(step) ==
    CASE step = "start" -> "launch"
      [] step = "launch" -> "new_context"
      [] step = "new_context" -> "new_page"
      [] step = "new_page" -> "stealth"
      [] step = "stealth" -> "ok"

\* What the await at `step` assigns when it returns; `_initialized = True`
\* follows the last one.
Started(m, step) ==
    CASE step = "start" -> [m EXCEPT !.playwright = TRUE]
      [] step = "launch" -> [m EXCEPT !.browser = TRUE]
      [] step = "new_context" -> [m EXCEPT !.context = TRUE]
      [] step = "new_page" -> [m EXCEPT !.page = TRUE]
      [] step = "stealth" -> [m EXCEPT !.stealth = TRUE, !.initialized = TRUE]

\* `except Exception as e:` of initialize()
InitializeCatches(e) == IsException(e)

\* Faulty variant: the handler raises without closing.
HandlerCloses_Nothing(m, out) == m

\* `await self.close()` in the handler of initialize()
HandlerCloses(m, out) == Closed(m, out)

\* raise RuntimeError(f"浏览器初始化失败: {e}")
InitializeError == Exc("RuntimeError", FALSE, FALSE)

\* A call on manager m has begun; done tells that it has ended.
Called(op, m) ==
    [op |-> op, m |-> m, before |-> mgr[m], after |-> mgr[m],
     out |-> NoExc, raised |-> NoExc, done |-> FALSE]

\* The holder of the managers makes one call at a time.
ManagersIdle == \A j \in Managers : mgr[j].pc = "idle"

\* initialize() called on manager m: `if self._initialized: return`.
InitializeBegin(m) ==
    /\ ~BrowserCancelled
    /\ ManagersIdle
    /\ IF mgr[m].initialized
       THEN /\ bev' = [Called("initialize", m) EXCEPT !.done = TRUE]
            /\ UNCHANGED mgr
       ELSE /\ bev' = Called("initialize", m)
            /\ mgr' = [mgr EXCEPT ![m].pc = "start", ![m].failedAt = "none"]
    /\ UNCHANGED <<fileState, config, conn, ldVars, mcp_connections, clVars, ev,
                   main, iv, envVars, wr, xt>>

\* One await of the try block returns, raises, or is cancelled.
InitializeStep(m) ==
    /\ ~BrowserCancelled
    /\ mgr[m].pc \in StartSteps
    /\ \E out \in {NoExc, OtherError, CancelledError} :
          mgr' = [mgr EXCEPT ![m] =
                    IF out = NoExc
                    THEN [Started(@, @.pc) EXCEPT !.pc = StepAfterStart(@)]
                    ELSE IF InitializeCatches(out)
                    THEN [@ EXCEPT !.pc = "handler", !.failedAt = mgr[m].pc]
                    ELSE [@ EXCEPT !.pc = "cancelled"]]
    /\ UNCHANGED <<fileState, config, conn, ldVars, mcp_connections, clVars, ev,
                   main, iv, envVars, wr, xt, bev>>

\* The handler: close(), then RuntimeError; a cancelled close() leaves the
\* handler with CancelledError.
InitializeHandler(m) ==
    /\ ~BrowserCancelled
    /\ mgr[m].pc = "handler"
    /\ \E out \in CloseOutcomes(mgr[m]) :
          mgr' = [mgr EXCEPT ![m] =
                    [HandlerCloses(@, out) EXCEPT
                        !.pc = IF CloseRaises(out) = NoExc
                               THEN "raised" ELSE "cancelled"]]
    /\ UNCHANGED <<fileState, config, conn, ldVars, mcp_connections, clVars, ev,
                   main, iv, envVars, wr, xt, bev>>

\* ensure_initialized(): `if not self._initialized: await self.initialize()`.
EnsureInitialized(m) ==
    /\ ~BrowserCancelled
    /\ ManagersIdle
    /\ IF mgr[m].initialized
       THEN /\ bev' = [Called("ensure_initialized", m) EXCEPT !.done = TRUE]
            /\ UNCHANGED mgr
       ELSE /\ bev' = Called("ensure_initialized", m)
            /\ mgr' = [mgr EXCEPT ![m].pc = "start", ![m].failedAt = "none"]
    /\ UNCHANGED <<fileState, config, conn, ldVars, mcp_connections, clVars, ev,
                   main, iv, envVars, wr, xt>>

\* initialize() returns, or raises RuntimeError, to the holder of manager m.
InitializeEnd(m) ==
    /\ ~BrowserCancelled
    /\ xt.pc = "idle"
    /\ mgr[m].pc \in {"ok", "raised"}
    /\ mgr' = [mgr EXCEPT ![m].pc = "idle"]
    /\ bev' = [bev EXCEPT
                  !.after = mgr'[m],
                  !.raised = IF mgr[m].pc = "raised" THEN InitializeError ELSE NoExc,
                  !.done = TRUE]
    /\ UNCHANGED <<fileState, config, conn, ldVars, mcp_connections, clVars, ev,
                   main, iv, envVars, wr, xt>>

\* close() called on manager m by its holder.
ManagerClose(m) ==
    /\ ~BrowserCancelled
    /\ ManagersIdle
    /\ \E out \in CloseOutcomes(mgr[m]) :
          /\ mgr' = [mgr EXCEPT ![m] =
                       [Closed(@, out) EXCEPT
                           !.pc = IF CloseRaises(out) = NoExc
                                  THEN "idle" ELSE "cancelled"]]
          /\ bev' = [Called("close", m) EXCEPT
                        !.after = mgr'[m], !.out = out,
                        !.raised = CloseRaises(out), !.done = TRUE]
    /\ UNCHANGED <<fileState, config, conn, ldVars, mcp_connections, clVars, ev,
                   main, iv, envVars, wr, xt>>

\* Manager objects used through their own methods, one call at a time.
InitManager == Init /\ fileState = "ok" /\ config = <<"ok">>

NextManager ==
    \/ \E m \in Managers : InitializeBegin(m)
    \/ \E m \in Managers : EnsureInitialized(m)
    \/ \E m \in Managers : InitializeStep(m)
    \/ \E m \in Managers : InitializeHandler(m)
    \/ \E m \in Managers : InitializeEnd(m)
    \/ \E m \in Managers : ManagerClose(m)

SpecManager == InitManager /\ [][NextManager]_vars

\* -------------------------------------------------- XHSBrowserTool.execute
\* `except Exception as e: return ToolResult(success=False, error=str(e))`
\* around the whole body of execute().
ToolCatches(e) == IsException(e)

\* execute() of `action` has returned a ToolResult; touched tells that a
\* manager or the publisher was called, connected what held at the call.
Result(action, success, touched) ==
    [action |-> action, success |-> success, raised |-> FALSE,
     touched |-> touched, connected |-> xt.connected]

\* The tool after an awaited call of `action` answered exc: a result with
\* `success` when it returned, a failed result when it raised an Exception,
\* and what is no Exception leaves execute().
Answered(x, action, exc, success) ==
    IF exc = NoExc
    THEN [x EXCEPT !.pc = "idle", !.last = Result(action, success, TRUE)]
    ELSE IF ToolCatches(exc)
    THEN [x EXCEPT !.pc = "idle", !.last = Result(action, FALSE, TRUE)]
    ELSE [x EXCEPT !.pc = "cancelled",
                   !.last = [Result(action, FALSE, TRUE) EXCEPT !.raised = TRUE]]

\* No execute() is under way and the task lives.
CanCall == ~BrowserCancelled /\ xt.pc = "idle"

\* action == "connect": the early return when a manager is initialized, else
\* `_browser_manager = BrowserManager()` and the start of initialize().
ToolConnect ==
    /\ CanCall
    /\ IF xt.browser_manager # 0 /\ mgr[xt.browser_manager].initialized
       THEN /\ xt' = [xt EXCEPT !.last = Result("connect", TRUE, FALSE),
                                !.connected = TRUE]
            /\ UNCHANGED mgr
       ELSE /\ xt.made < MaxManagers
            /\ xt' = [xt EXCEPT !.browser_manager = xt.made + 1,
                                !.made = @ + 1, !.pc = "connecting"]
            /\ mgr' = [mgr EXCEPT ![xt.made + 1].pc = "start"]
    /\ UNCHANGED <<fileState, config, conn, ldVars, mcp_connections, clVars, ev,
                   main, iv, envVars, wr, bev>>

\* initialize() has ended: when it returned, XiaohongshuPublisher(...) is
\* built (its constructor creates the workspace directory and can raise);
\* when it raised RuntimeError, execute()'s handler answers.
ToolConnectEnd ==
    /\ ~BrowserCancelled
    /\ xt.pc = "connecting"
    /\ mgr[xt.browser_manager].pc \in {"ok", "raised"}
    /\ mgr' = [mgr EXCEPT ![xt.browser_manager].pc = "idle"]
    /\ IF mgr[xt.browser_manager].pc = "ok"
       THEN \E built \in {NoExc, OtherError} :
               xt' = [Answered(xt, "connect", built, TRUE) EXCEPT
                         !.publisher = IF built = NoExc THEN xt.browser_manager ELSE @,
                         !.connected = (built = NoExc)]
       ELSE xt' = Answered(xt, "connect", InitializeError, FALSE)
    /\ UNCHANGED <<fileState, config, conn, ldVars, mcp_connections, clVars, ev,
                   main, iv, envVars, wr, bev>>

\* action == "login": `if not _publisher:` answers a failure, else
\* login_with_cookies() is awaited and both of its answers are a success.
ToolLogin ==
    /\ CanCall
    /\ IF xt.publisher = 0
       THEN xt' = [xt EXCEPT !.last = Result("login", FALSE, FALSE)]
       ELSE \E out \in {NoExc, OtherError, CancelledError} :
               xt' = Answered(xt, "login", out, TRUE)
    /\ UNCHANGED <<fileState, config, conn, ldVars, mcp_connections, clVars, ev,
                   main, iv, envVars, wr, mgr, bev>>

\* action == "publish": `if not _publisher:` and `if not title or not
\* content:` answer a failure, else post_article() is awaited and its
\* "success" entry is the result's.
ToolPublish ==
    /\ CanCall
    /\ \E filled \in BOOLEAN :
          IF xt.publisher = 0 \/ ~filled
          THEN xt' = [xt EXCEPT !.last = Result("publish", FALSE, FALSE)]
          ELSE \E out \in {NoExc, OtherError, CancelledError}, posted \in BOOLEAN :
                  xt' = Answered(xt, "publish", out, posted)
    /\ UNCHANGED <<fileState, config, conn, ldVars, mcp_connections, clVars, ev,
                   main, iv, envVars, wr, mgr, bev>>

\* Faulty variant: close forgets the manager and keeps the publisher.
ToolClosed_KeepsPublisher(x) ==
    [x EXCEPT !.browser_manager = 0, !.connected = FALSE]

\* `_browser_manager = None; _publisher = None`
ToolClosed(x) ==
    [x EXCEPT !.browser_manager = 0, !.publisher = 0, !.connected = FALSE]

\* action == "close": `if _browser_manager:` close() is awaited and both
\* globals are set to None; a success is answered either way.
ToolClose ==
    /\ CanCall
    /\ IF xt.browser_manager = 0
       THEN /\ xt' = [xt EXCEPT !.last = Result("close", TRUE, FALSE)]
            /\ UNCHANGED mgr
       ELSE \E out \in CloseOutcomes(mgr[xt.browser_manager]) :
               /\ mgr' = [mgr EXCEPT ![xt.browser_manager] = Closed(@, out)]
               /\ xt' = IF CloseRaises(out) = NoExc
                        THEN ToolClosed(Answered(xt, "close", NoExc, TRUE))
                        ELSE Answered(xt, "close", CloseRaises(out), FALSE)
    /\ UNCHANGED <<fileState, config, conn, ldVars, mcp_connections, clVars, ev,
                   main, iv, envVars, wr, bev>>

\* Any other action: `return ToolResult(success=False, error=...)`.
ToolUnknown ==
    /\ CanCall
    /\ xt' = [xt EXCEPT !.last = Result("unknown", FALSE, FALSE)]
    /\ UNCHANGED <<fileState, config, conn, ldVars, mcp_connections, clVars, ev,
                   main, iv, envVars, wr, mgr, bev>>

\* The tool called action after action by the agent.
InitTool == Init /\ fileState = "ok" /\ config = <<"ok">>

NextTool ==
    \/ ToolConnect
    \/ \E m \in Managers : InitializeStep(m)
    \/ \E m \in Managers : InitializeHandler(m)
    \/ ToolConnectEnd
    \/ ToolLogin
    \/ ToolPublish
    \/ ToolClose
    \/ ToolUnknown

SpecTool == InitTool /\ [][NextTool]_vars

\* ------------------------------------------------------------- claims
\* An external cancellation was delivered during this run.
Cancelled == \E i \in Servers : conn[i].cancelAt # "none"

\* Every entry has the shape the configuration file documents.
WellFormed == \A k \in 1..Len(config) : config[k] \in {"ok", "disabled", "nocmd"}

RECURSIVE ConnectedTools(_)
\* The tools of entries 1..k whose connect() returned True, in entry order.
ConnectedTools(k) ==
    IF k = 0 THEN <<>>
    ELSE ConnectedTools(k - 1) \o
         (IF conn[k].result = "True" THEN conn[k].tools ELSE <<>>)

\* C1: load_mcp_tools_async never raises and returns exactly the tools of
\* the entries whose connect() succeeded. Stated for well-formed entries and
\* runs without a cancellation, where the claim leaves no doubt.
C1_LoadReturnsConnectedTools ==
    (pc = "done" /\ WellFormed /\ ~Cancelled) =>
        /\ ldRet.kind = "returned"
        /\ ldRet.tools = ConnectedTools(Len(config))

\* C2: when load has ended, every enabled entry with a command has had its
\* own connect() attempt, whatever happened to the entries before it
\* (well-formed entries, no cancellation).
C2_EveryEligibleEntryAttempted ==
    (pc = "done" /\ WellFormed /\ ~Cancelled) =>
        \A k \in 1..Len(config) : Eligible(config[k]) => conn[k].created

\* C3: a connect() in which some step raised an error has returned False,
\* and nothing has propagated out of load (no cancellation involved).
C3_ConnectFailureReturnsFalse ==
    \A i \in Servers :
        (conn[i].failedAt # "none" /\ conn[i].result # "none"
         /\ conn[i].cancelAt = "none") =>
            /\ conn[i].result = "False"
            /\ ldRet.kind # "raised"

\* C4: a connection whose connect() has ended without making it Ready holds
\* no open process or channel: what was opened has been closed.
C4_NoLeakAfterFailedConnect ==
    \A i \in Servers :
        conn[i].phase = "Failed" =>
            /\ conn[i].proc \in {"none", "closed"}
            /\ conn[i].chan \in {"none", "closed"}

\* C5: when a cancellation arrived while connect() was suspended in
\* initialize or list_tools, then by the time cleanup_mcp_connections has
\* run the release of that connection was attempted, and the cancellation
\* did not surface from load.
C5_CancelMidHandshakeCleansUp ==
    \A i \in Servers :
        (conn[i].cancelAt \in {"initialize", "list_tools"} /\ cleanups > 0) =>
            /\ conn[i].acloses > 0
            /\ ldRet.kind # "raised"

\* The connections of the process-wide list.
Listed == {mcp_connections[k] : k \in 1..Len(mcp_connections)}

\* C6: when a cleanup_mcp_connections call ends, disconnect() has been
\* called on every connection of the list, also after an earlier
\* disconnect() raised, and the call ends without raising.
C6_CleanupDisconnectsAll ==
    [][(clPc = "loop" /\ clPc' = "idle") => (clSeen = Listed /\ ~clRaised')]_vars

\* C6 witness: the first connection's disconnect() raised into the guard and
\* the second connection's disconnect() then ran its release.
C6_Witness ==
    /\ clPc = "loop"
    /\ clCaught
    /\ Len(mcp_connections) = 2
    /\ clSeen = Listed
    /\ ev.c = mcp_connections[2]
    /\ ev.called
    /\ ~ev.raised

\* C7: when a cleanup_mcp_connections call ends, the process-wide list is
\* empty, whatever the teardowns did.
C7_CleanupClearsList ==
    [][(clPc = "loop" /\ clPc' = "idle") => mcp_connections' = <<>>]_vars

\* C7 witness: cleanup has ended with an empty list after one teardown that
\* succeeded and one that failed.
C7_Witness ==
    /\ clPc = "idle"
    /\ cleanups = 1
    /\ mcp_connections = <<>>
    /\ \E i, j \in Servers :
          /\ conn[i].result = "True" /\ conn[i].proc = "closed"
          /\ conn[j].result = "True" /\ conn[j].proc = "unknown"

\* C8: a cleanup_mcp_connections call that follows an ended one, or that
\* finds the list empty, calls no disconnect(), changes no connection, does
\* not raise and leaves the list empty.
C8_CleanupIdempotent ==
    [][(clPc = "loop" /\ (cleanups > 0 \/ mcp_connections = <<>>)) =>
          /\ conn' = conn
          /\ ev'.op # "disconnect"
          /\ mcp_connections' = <<>>
          /\ clPc' = "idle"
          /\ ~clRaised']_vars

\* C8 witness: a second cleanup call has ended after a first one that tore
\* down a connection.
C8_Witness ==
    /\ clPc = "idle"
    /\ cleanups = 2
    /\ ~clRaised
    /\ mcp_connections = <<>>
    /\ \E i \in Servers : conn[i].result = "True" /\ conn[i].phase = "Closed"

\* C9: disconnect() on a connection that is already Closed releases nothing,
\* changes nothing of the connection and does not raise.
C9_DisconnectIdempotent ==
    [][(ev'.op = "disconnect" /\ conn[ev'.c].phase = "Closed") =>
          /\ conn'[ev'.c] = conn[ev'.c]
          /\ ~ev'.called
          /\ ~ev'.raised]_vars

\* C9 witness: a disconnect() on a connection that had been Ready and was
\* torn down before returned without calling aclose().
C9_Witness ==
    /\ ev.op = "disconnect"
    /\ ~ev.called
    /\ ~ev.raised
    /\ conn[ev.c].result = "True"
    /\ conn[ev.c].acloses = 1

\* A cancellation, or a RuntimeError whose message mentions a cancel scope
\* or a different task.
ExpectedShutdownError(e) ==
    e = CancelledError \/ (e.cls = "RuntimeError" /\ (e.cs \/ e.dt))

\* C10: when aclose() raises one of the two expected shutdown errors,
\* disconnect() returns normally and the connection is Closed: it holds no
\* exit stack and no session.
C10_ExpectedErrorsSuppressed ==
    (ev.op = "disconnect" /\ ev.called /\ ExpectedShutdownError(ev.out)) =>
        /\ ~ev.raised
        /\ ~conn[ev.c].exit_stack
        /\ ~conn[ev.c].session
        /\ conn[ev.c].phase = "Closed"

\* C10 witness: aclose() raised a RuntimeError that mentions only a
\* different task, and disconnect() returned with the connection Closed.
C10_Witness ==
    /\ ev.op = "disconnect"
    /\ ev.called
    /\ ev.out = Exc("RuntimeError", FALSE, TRUE)
    /\ ~ev.raised
    /\ ~conn[ev.c].exit_stack

\* C11: any other error aclose() raises (neither a cancellation nor a
\* cancel-scope / different-task RuntimeError) is suppressed too:
\* disconnect() raises nothing and the connection holds no exit stack.
C11_OtherErrorsSuppressed ==
    (ev.op = "disconnect" /\ ev.called /\ ev.out # NoExc
     /\ ~ExpectedShutdownError(ev.out)) =>
        /\ ~ev.raised
        /\ ~conn[ev.c].exit_stack

\* The tools of entry k are in the list ts.
HasToolOf(ts, k) == \E j \in 1..Len(ts) : ts[j].server = k

\* C15: for an entry with disabled=true no connection is created or
\* connected, nothing of it is in the registry, no tool of it is collected
\* or returned.
C15_DisabledNeverAttempted ==
    \A k \in 1..Len(config) :
        config[k] = "disabled" =>
            /\ ~conn[k].created
            /\ conn[k].proc = "none"
            /\ k \notin Listed
            /\ ~HasToolOf(all_tools, k)
            /\ ~HasToolOf(ldRet.tools, k)

\* C15 witness: load returned the tools of a connected entry that follows a
\* disabled one.
C15_Witness ==
    /\ pc = "done"
    /\ Len(config) = 2
    /\ config[1] = "disabled"
    /\ conn[2].result = "True"
    /\ ldRet.tools = conn[2].tools
    /\ Len(ldRet.tools) > 0

\* C18: a malformed entry is fatal to that entry only: when load has ended
\* (no cancellation, no connect() that raised), every other entry that
\* reaches connect() has been attempted and the tools of those that
\* connected are returned.
C18_MalformedEntryIsolated ==
    (pc = "done" /\ ~Cancelled /\ \A i \in Servers : conn[i].result # "raised") =>
        /\ \A k \in 1..Len(config) : Eligible(config[k]) => conn[k].created
        /\ ldRet.tools = ConnectedTools(Len(config))

\* C19: for an entry without a command no connection is created, no process
\* is spawned, nothing of it is in the registry or among the tools, and the
\* loop does not stop at it.
C19_NoCommandRejected ==
    \A k \in 1..Len(config) :
        config[k] = "nocmd" =>
            /\ ~conn[k].created
            /\ conn[k].proc = "none"
            /\ k \notin Listed
            /\ ~HasToolOf(all_tools, k)
            /\ ~HasToolOf(ldRet.tools, k)
            /\ (ldI = k => pc = "entry")

\* C19 witness: load returned the tools of a connected entry that follows
\* an entry without a command.
C19_Witness ==
    /\ pc = "done"
    /\ Len(config) = 2
    /\ config[1] = "nocmd"
    /\ conn[2].result = "True"
    /\ ldRet.tools = conn[2].tools
    /\ Len(ldRet.tools) > 0

\* C20: with the configuration file absent, unparsable or declaring no
\* server, load returns the empty list without raising, no connection is
\* created and the registry stays empty.
C20_NoUsableConfig ==
    (pc = "done" /\ (fileState # "ok" \/ config = <<>>)) =>
        /\ ldRet = Returned(<<>>)
        /\ \A i \in Servers : ~conn[i].created
        /\ mcp_connections = <<>>

\* C20 witness: load has returned on an unparsable file.
C20_Witness ==
    /\ pc = "done"
    /\ fileState = "unparsable"
    /\ ldRet.kind = "returned"
    /\ ldRet.tools = <<>>

\* The values the text calls placeholders, listed one by one.
PlaceholderShaped(v) ==
    v \in {<<>>, <<"YOUR_", "KEY">>, <<"your-", "key">>}

\* C16 (as stated): a placeholder value (empty, or starting with YOUR_ or
\* your-) is replaced by the ambient variable of the same name whenever the
\* ambient environment defines it, and is kept unchanged otherwise.
C16_PlaceholderFromAmbient ==
    resolved.done =>
        \A k \in DOMAIN envCfg :
            PlaceholderShaped(envCfg[k]) =>
                resolved.env[k] = IF ambient[k].defined
                                  THEN ambient[k].val
                                  ELSE envCfg[k]

\* C16 (amended): a placeholder value is replaced by the ambient variable of
\* the same name whenever the ambient environment defines it with a non-empty
\* value, and is kept unchanged otherwise.
C16_PlaceholderFromNonEmptyAmbient ==
    resolved.done =>
        \A k \in DOMAIN envCfg :
            PlaceholderShaped(envCfg[k]) =>
                resolved.env[k] = IF ambient[k].defined /\ ambient[k].val # <<>>
                                  THEN ambient[k].val
                                  ELSE envCfg[k]

\* One placeholder substituted, another kept although its variable is defined.
C16_Witness ==
    /\ resolved.done
    /\ DOMAIN envCfg = Keys
    /\ envCfg[1] = <<"YOUR_", "KEY">>
    /\ ambient[1] = [defined |-> TRUE, val |-> <<"amb">>]
    /\ resolved.env[1] = <<"amb">>
    /\ envCfg[2] = <<"your-", "key">>
    /\ ambient[2] = [defined |-> TRUE, val |-> <<>>]
    /\ resolved.env[2] = <<"your-", "key">>

\* C17: a non-empty value that starts with neither marker is passed to the
\* child process exactly as configured, whatever the ambient environment holds.
C17_LiteralVerbatim ==
    resolved.done =>
        \A k \in DOMAIN envCfg :
            (envCfg[k] # <<>> /\ ~PlaceholderShaped(envCfg[k])) =>
                resolved.env[k] = envCfg[k]

\* A literal that carries the marker past its start, with the variable set.
C17_Witness ==
    /\ resolved.done
    /\ 1 \in DOMAIN envCfg
    /\ envCfg[1] = <<"x", "YOUR_">>
    /\ ambient[1] = [defined |-> TRUE, val |-> <<"amb">>]
    /\ resolved.env[1] = <<"x", "YOUR_">>

\* C12: execute never lets a transport-level exception of the call escape:
\* it returns success=False, empty content, and an error that carries the
\* exception's message.
C12_ExecuteConvertsTransportErrors ==
    (iv.pc = "done" /\ iv.out.kind = "exc" /\ iv.out.exc.cls = "Exception") =>
        /\ ~iv.raised
        /\ iv.res.success = FALSE
        /\ iv.res.content = <<>>
        /\ iv.res.error.some
        /\ iv.res.error.s = <<"MCP tool execution failed: ">> \o iv.out.exc.msg

\* A call on an open channel that timed out.
C12_Witness ==
    /\ iv.pc = "done"
    /\ iv.chanAt = "open"
    /\ iv.out.kind = "exc"
    /\ iv.out.exc = [cls |-> "Exception", msg |-> <<"timed", "out">>]
    /\ ~iv.raised
    /\ ~iv.res.success

C14_CleanupOnEveryExit ==
    (main.pc = "ended" /\ ldRet.kind = "returned") =>
        /\ mcp_connections = <<>>
        /\ \A i \in Servers :
              /\ conn[i].result = "True" => conn[i].phase = "Closed"
              /\ conn[i].acloses <= 1

\* The edges of the connection state machine.
LifecycleEdge(a, b) ==
    \/ a = b
    \/ <<a, b>> \in {<<"Disconnected", "Connecting">>, <<"Connecting", "Ready">>,
                     <<"Connecting", "Failed">>, <<"Ready", "Closed">>,
                     <<"Failed", "Closed">>}

\* C21: a connection moves only along Disconnected -> Connecting -> Ready,
\* Connecting -> Failed, Ready -> Closed and Failed -> Closed; once Closed,
\* no operation (connect, disconnect, invoke, load, cleanup) moves it again.
C21_LifecycleEdgesOnly ==
    [][\A i \in Servers : LifecycleEdge(conn[i].phase, conn'[i].phase)]_vars

\* The two requests of the protocol, handshake first.
Protocol == <<"initialize", "list_tools">>

\* C22: on every connection the handshake is answered before capability
\* discovery is; a tool exists only on a connection where both were answered,
\* and execute() is only ever called on a tool of such a connection.
C22_HandshakeDiscoveryInvoke ==
    /\ \A i \in Servers :
          /\ conn[i].steps = SubSeq(Protocol, 1, Len(conn[i].steps))
          /\ conn[i].tools # <<>> => conn[i].steps = Protocol
    /\ iv.pc # "idle" => conn[iv.tool.server].steps = Protocol

\* A tool was invoked and answered, on a connection that went through both.
C22_Witness ==
    /\ iv.pc = "done"
    /\ iv.out.kind = "response"
    /\ conn[iv.tool.server].steps = <<"initialize", "list_tools">>
    /\ conn[iv.tool.server].tools # <<>>

\* C23: _mcp_connections starts empty; a step that changes it either appends
\* the connection whose connect() has just returned True or is the clear at
\* the end of cleanup_mcp_connections; every listed connection connected.
C23_RegistryGrowsBySuccessOnly ==
    /\ (pc = "idle" => mcp_connections = <<>>)
    /\ [][/\ mcp_connections' # mcp_connections =>
                \/ /\ pc = "list_tools"
                   /\ mcp_connections' = Append(mcp_connections, ldI)
                   /\ conn'[ldI].result = "True"
                \/ /\ clPc = "loop"
                   /\ clPc' = "idle"
                   /\ mcp_connections' = <<>>
          /\ \A k \in 1..Len(mcp_connections') :
                conn'[mcp_connections'[k]].result = "True"]_vars

\* The second entry is listed; the first was attempted and failed.
C23_Witness ==
    /\ mcp_connections = <<2>>
    /\ conn[1].created
    /\ conn[1].result = "False"
    /\ conn[2].result = "True"

\* C24: every tool in the list load_mcp_tools_async returned belongs to a
\* connection whose connect() returned True after the handshake and the whole
\* discovery; no tool of a connection that failed is in it.
C24_NoToolOfFailedConnection ==
    ldRet.kind = "returned" =>
        \A k \in 1..Len(ldRet.tools) :
            LET c == conn[ldRet.tools[k].server] IN
            /\ c.result = "True"
            /\ c.failedAt = "none"
            /\ c.steps = <<"initialize", "list_tools">>
            /\ \E j \in 1..Len(c.tools) : c.tools[j] = ldRet.tools[k]

\* Tools were returned while another connection, which failed while its
\* tools were being wrapped, holds the tools wrapped before the failure.
C24_Witness ==
    /\ ldRet.kind = "returned"
    /\ ldRet.tools # <<>>
    /\ \E i \in Servers :
          /\ conn[i].failedAt = "wrap"
          /\ conn[i].result = "False"
          /\ conn[i].tools # <<>>

\* C25: for a response (no exception), success is the negation of the error
\* flag, an absent flag counting as not set; the error is the fixed string
\* when the flag is set and None when it is not.
C25_ErrorFlagTranslated ==
    (iv.pc = "done" /\ iv.out.kind = "response") =>
        LET flag == iv.out.hasIsError /\ iv.out.isError IN
        /\ ~iv.raised
        /\ iv.res.success = ~flag
        /\ iv.res.error = IF flag
                          THEN [some |-> TRUE, s |-> <<"Tool returned error">>]
                          ELSE [some |-> FALSE, s |-> <<>>]

\* A response with the flag set came back as a failed result with content.
C25_Witness ==
    /\ iv.pc = "done"
    /\ iv.out.kind = "response"
    /\ iv.out.hasIsError
    /\ iv.out.isError
    /\ ~iv.res.success
    /\ iv.res.error.some
    /\ iv.res.content # <<>>

\* What one fragment contributes: its text, or its generic string form.
Rendering(f) == IF f.kind = "text" THEN f.text ELSE <<"<", f.kind, ">">>

RECURSIVE Joined(_)
\* The first fragments joined, then a newline and the last one.
Joined(fs) ==
    IF Len(fs) = 0 THEN <<>>
    ELSE IF Len(fs) = 1 THEN Rendering(fs[1])
    ELSE Joined(SubSeq(fs, 1, Len(fs) - 1)) \o <<"\n">> \o Rendering(fs[Len(fs)])

\* C26: the content of the result is the fragments' texts (generic string
\* form for a fragment without text) in received order with one newline
\* between neighbours; no fragment gives the empty string.
C26_ContentIsJoinedFragments ==
    (iv.pc = "done" /\ iv.out.kind = "response") =>
        /\ iv.res.content = Joined(iv.out.content)
        /\ Len(iv.out.content) = 0 => iv.res.content = <<>>

\* A text fragment followed by a fragment that has no text.
C26_Witness ==
    /\ iv.pc = "done"
    /\ iv.out.kind = "response"
    /\ Len(iv.out.content) = 2
    /\ iv.out.content[1] = [kind |-> "text", text |-> <<"a">>]
    /\ iv.out.content[2].kind = "image"
    /\ iv.res.content = <<"a", "\n", "<", "image", ">">>

\* The tools of connection i in the list ts, in the order they have there.
ToolsOf(ts, i) == SelectSeq(ts, LAMBDA t : t.server = i)

\* C27: in the returned list the tools of an entry that comes earlier in
\* the configuration come before those of a later one, and each
\* connection's tools are together, all of them, in discovery order.
C27_OrderedByConnection ==
    ldRet.kind = "returned" =>
        /\ \A p \in 1..Len(ldRet.tools), q \in 1..Len(ldRet.tools) :
              p < q => ldRet.tools[p].server <= ldRet.tools[q].server
        /\ \A i \in Servers :
              ToolsOf(ldRet.tools, i) # <<>> =>
                  ToolsOf(ldRet.tools, i) = conn[i].tools

\* Two connections with two tools each, the first entry's tools first.
C27_Witness ==
    /\ ldRet.kind = "returned"
    /\ Len(ldRet.tools) = 4
    /\ ldRet.tools = <<Tool(1, 1), Tool(1, 2), Tool(2, 1), Tool(2, 2)>>

RECURSIVE ConnectedCount(_)
\* How many tools the connected ones among entries 1..k discovered.
ConnectedCount(k) ==
    IF k = 0 THEN 0
    ELSE ConnectedCount(k - 1) +
         (IF conn[k].result = "True" THEN Len(conn[k].tools) ELSE 0)

\* C28: tools are not deduplicated by name: when two servers that both
\* connected expose a tool of the same name both are in the returned list,
\* and the list is as long as the connected servers' tool counts together.
C28_NoDedupLengthIsSum ==
    ldRet.kind = "returned" =>
        /\ \A i \in Servers, j \in Servers, t \in 1..MaxTools :
              (/\ i # j
               /\ conn[i].result = "True" /\ t <= Len(conn[i].tools)
               /\ conn[j].result = "True" /\ t <= Len(conn[j].tools)) =>
                  \E p \in 1..Len(ldRet.tools), q \in 1..Len(ldRet.tools) :
                      ldRet.tools[p] = Tool(i, t) /\ ldRet.tools[q] = Tool(j, t)
        /\ Len(ldRet.tools) = ConnectedCount(NumServers)

\* C29: a connection that connected is Closed only once disconnect() has
\* exited the client session and then the stdio transport, the reverse of
\* the order connect() entered them; until then nothing of it is released.
C29_ChannelThenProcessThenClosed ==
    \A i \in Servers :
        conn[i].result = "True" =>
            IF conn[i].phase = "Closed"
            THEN conn[i].released = <<"chan", "proc">>
            ELSE conn[i].phase = "Ready" /\ conn[i].released = <<>>

\* A disconnect() that released an open connection without an error.
C29_Witness ==
    /\ ev.op = "disconnect"
    /\ ev.called
    /\ ev.out = NoExc
    /\ conn[ev.c].result = "True"
    /\ conn[ev.c].phase = "Closed"
    /\ conn[ev.c].released = <<"chan", "proc">>
    /\ conn[ev.c].proc = "closed"

\* C30: however the first disconnect() on a connection that connected ended,
\* the connection holds neither exit stack nor session afterwards, and
\* aclose() is never called on it a second time.
C30_TeardownNeverRetried ==
    \A i \in Servers :
        conn[i].result = "True" =>
            /\ conn[i].acloses <= 1
            /\ conn[i].phase = "Closed" =>
                  /\ ~conn[i].exit_stack
                  /\ ~conn[i].session
                  /\ conn[i].acloses = 1

\* A later disconnect() on a connection whose release had raised: it called
\* nothing.
C30_Witness ==
    /\ ev.op = "disconnect"
    /\ ~ev.called
    /\ conn[ev.c].result = "True"
    /\ conn[ev.c].proc = "unknown"
    /\ conn[ev.c].acloses = 1
    /\ ~conn[ev.c].exit_stack

\* C32: connect failures are not retried. Within one load call every entry
\* gets at most one connect() attempt, and a server whose connect() failed
\* is not in the registry and has no tool in the list load builds or returns.
C32_FailuresNotRetried ==
    \A i \in Servers :
        /\ conn[i].attempts <= 1
        /\ conn[i].result \in {"False", "raised"} =>
              /\ conn[i].attempts = 1
              /\ i \notin Listed
              /\ ~HasToolOf(all_tools, i)
              /\ ~HasToolOf(ldRet.tools, i)

\* The load has ended normally with a server that failed at an await, once
\* attempted, beside a server that connected.
C32_Witness ==
    /\ pc = "done"
    /\ ldRet.kind = "returned"
    /\ \E i, j \in Servers :
          /\ conn[i].result = "False"
          /\ conn[i].failedAt \in AwaitPoints
          /\ conn[i].attempts = 1
          /\ conn[j].result = "True"
          /\ j \in Listed

\* C33: whenever load returns, the tools of every connection it appended to
\* the registry are in the returned list, also when a later entry makes the
\* load stop with an error.
C33_RegisteredToolsReturned ==
    (pc = "done" /\ ldRet.kind = "returned") =>
        \A i \in Listed :
            \A k \in 1..Len(conn[i].tools) :
                \E r \in 1..Len(ldRet.tools) : ldRet.tools[r] = conn[i].tools[k]

\* C34: after connect() has returned False the exit stack is None, what the
\* connection had acquired was released by the one aclose() of the failure
\* handler, and a later disconnect() does not call aclose() again.
C34_FailedConnectReleasedOnce ==
    \A i \in Servers :
        conn[i].result = "False" =>
            /\ ~conn[i].exit_stack
            /\ conn[i].acloses = (IF conn[i].failedAt = "params" THEN 0 ELSE 1)
            /\ conn[i].proc # "open"
            /\ conn[i].chan # "open"
            /\ (ev.op = "disconnect" /\ ev.c = i) => ~ev.called

\* disconnect() was called on a connection whose connect() had failed after
\* the session was entered and had returned False.
C34_Witness ==
    \E i \in Servers :
        /\ conn[i].result = "False"
        /\ conn[i].failedAt \in {"initialize", "list_tools", "wrap"}
        /\ conn[i].released # <<>>
        /\ conn[i].acloses = 1
        /\ ev.op = "disconnect"
        /\ ev.c = i
        /\ ~ev.called

\* C35: env resolution preserves the key set. The resolved mapping has
\* exactly the keys of the configured mapping, whatever the environment holds.
C35_ResolvedKeysAreConfiguredKeys ==
    resolved.done => DOMAIN resolved.env = DOMAIN envCfg

\* One key configured as a placeholder the environment does not define,
\* while the environment defines a key the mapping does not configure.
C35_Witness ==
    /\ resolved.done
    /\ DOMAIN envCfg = {1}
    /\ envCfg[1] = <<"YOUR_", "KEY">>
    /\ ~ambient[1].defined
    /\ ambient[2] = [defined |-> TRUE, val |-> <<"amb">>]
    /\ DOMAIN resolved.env = {1}

\* C31: after a successful connect() the tools list holds exactly one tool
\* per discovered descriptor, in discovery order, with the descriptor's name,
\* its description (the empty string when none is given), its parameter
\* schema, and bound to this connection's session.
C31_OneToolPerDescriptor ==
    wr.result = "True" =>
        /\ Len(wr.tools) = Len(wr.descs)
        /\ \A k \in 1..Len(wr.descs) :
              LET d == wr.descs[k]
                  t == wr.tools[k] IN
              /\ t.name = d.name
              /\ (d.description.some => t.description = d.description.s)
              /\ (~d.description.some => t.description = <<>>)
              /\ (d.inputSchema.some => t.parameters = d.inputSchema.s)
              /\ t.session = wr.session

\* Two descriptors of the same name, the first without a description, the
\* second with one, have been wrapped and connect() has returned True.
C31_Witness ==
    /\ wr.result = "True"
    /\ Len(wr.descs) = 2
    /\ wr.descs[1].name = wr.descs[2].name
    /\ wr.descs[1].description = None
    /\ wr.descs[2].description = Some(<<"d">>)
    /\ wr.tools[1].description = <<>>
    /\ wr.tools[2].description = <<"d">>

\* No handle is held and the flag is down.
FullyReset(m) ==
    ~m.playwright /\ ~m.browser /\ ~m.context /\ ~m.page /\ ~m.initialized

Initializing == bev.op \in {"initialize", "ensure_initialized"} /\ bev.done

====
